---- MODULE Spec2Model ----
(***************************************************************************)
(* ssh-keys: parsing, re-serialisation and derived operations of SSH       *)
(* public keys (src/src/lib.rs).  Text and binary data are sequences of    *)
(* byte values 0..255; a text line is the sequence of its ASCII codes.     *)
(***************************************************************************)
EXTENDS Integers, Sequences, FiniteSets, TLC

(***************************************************************************)
(* Bounds of the model.                                                    *)
(***************************************************************************)
\* longest key-material field (mpint or blob) drawn as an input
MaxLen == 2

\* the number of set_comment calls on one key
MaxCalls == 2

(***************************************************************************)
(* Program constants (lib.rs:54-62), as ASCII byte sequences.              *)
(***************************************************************************)
\* "ssh-rsa"
SSH_RSA == <<115, 115, 104, 45, 114, 115, 97>>
\* "ssh-dss"
SSH_DSA == <<115, 115, 104, 45, 100, 115, 115>>
\* "ssh-ed25519"
SSH_ED25519 == <<115, 115, 104, 45, 101, 100, 50, 53, 53, 49, 57>>
\* "ecdsa-sha2-nistp256"
SSH_ECDSA_256 == <<101, 99, 100, 115, 97, 45, 115, 104, 97, 50, 45, 110, 105, 115, 116, 112, 50, 53, 54>>
\* "ecdsa-sha2-nistp384"
SSH_ECDSA_384 == <<101, 99, 100, 115, 97, 45, 115, 104, 97, 50, 45, 110, 105, 115, 116, 112, 51, 56, 52>>
\* "ecdsa-sha2-nistp521"
SSH_ECDSA_521 == <<101, 99, 100, 115, 97, 45, 115, 104, 97, 50, 45, 110, 105, 115, 116, 112, 53, 50, 49>>
\* "nistp256"
NISTP_256 == <<110, 105, 115, 116, 112, 50, 53, 54>>
\* "nistp384"
NISTP_384 == <<110, 105, 115, 116, 112, 51, 56, 52>>
\* "nistp521"
NISTP_521 == <<110, 105, 115, 116, 112, 53, 50, 49>>

(***************************************************************************)
(* Errors (lib.rs:22-42): a kind and, for the two Unsupported kinds, the   *)
(* offending string.                                                       *)
(***************************************************************************)
NoError == [kind |-> "None", arg |-> <<>>]
InvalidFormat == [kind |-> "InvalidFormat", arg |-> <<>>]
Utf8 == [kind |-> "Utf8", arg |-> <<>>]
UnsupportedKeytype(t) == [kind |-> "UnsupportedKeytype", arg |-> t]
UnsupportedCurve(t) == [kind |-> "UnsupportedCurve", arg |-> t]

(***************************************************************************)
(* Sequence helpers (Rust slices).                                         *)
(***************************************************************************)
\* s[from..] with a 0-based start, as in Rust
Slice(s, from) == SubSeq(s, from + 1, Len(s))

(***************************************************************************)
(* base64 (external crate): the standard alphabet with '=' padding.        *)
(***************************************************************************)
\* the character of a 6-bit value
B64Char(v) ==
  IF v < 26 THEN 65 + v
  ELSE IF v < 52 THEN 97 + (v - 26)
  ELSE IF v < 62 THEN 48 + (v - 52)
  ELSE IF v = 62 THEN 43 ELSE 47

\* the 6-bit value of a character, -1 for a character outside the alphabet
B64Val(ch) ==
  IF ch >= 65 /\ ch <= 90 THEN ch - 65
  ELSE IF ch >= 97 /\ ch <= 122 THEN ch - 97 + 26
  ELSE IF ch >= 48 /\ ch <= 57 THEN ch - 48 + 52
  ELSE IF ch = 43 THEN 62
  ELSE IF ch = 47 THEN 63
  ELSE -1

RECURSIVE base64_encode(_)
base64_encode(b) ==
  IF Len(b) = 0 THEN <<>>
  ELSE IF Len(b) = 1 THEN
    <<B64Char(b[1] \div 4), B64Char((b[1] % 4) * 16), 61, 61>>
  ELSE IF Len(b) = 2 THEN
    <<B64Char(b[1] \div 4),
      B64Char((b[1] % 4) * 16 + b[2] \div 16),
      B64Char((b[2] % 16) * 4), 61>>
  ELSE
    <<B64Char(b[1] \div 4),
      B64Char((b[1] % 4) * 16 + b[2] \div 16),
      B64Char((b[2] % 16) * 4 + b[3] \div 64),
      B64Char(b[3] % 64)>> \o base64_encode(Slice(b, 3))

\* the bytes of a run of 6-bit values (no padding left in it)
RECURSIVE B64Bytes(_)
B64Bytes(v) ==
  IF Len(v) < 2 THEN <<>>
  ELSE IF Len(v) = 2 THEN <<v[1] * 4 + v[2] \div 16>>
  ELSE IF Len(v) = 3 THEN
    <<v[1] * 4 + v[2] \div 16, (v[2] % 16) * 16 + v[3] \div 4>>
  ELSE
    <<v[1] * 4 + v[2] \div 16, (v[2] % 16) * 16 + v[3] \div 4,
      (v[3] % 4) * 64 + v[4]>> \o B64Bytes(Slice(v, 4))

\* the text without its trailing '=' padding (at most two characters)
B64Unpadded(t) ==
  IF Len(t) >= 2 /\ t[Len(t)] = 61 /\ t[Len(t) - 1] = 61 THEN SubSeq(t, 1, Len(t) - 2)
  ELSE IF Len(t) >= 1 /\ t[Len(t)] = 61 THEN SubSeq(t, 1, Len(t) - 1)
  ELSE t

\* decode: fails on a character outside the alphabet, on a length that is
\* no multiple of four, and on padding that does not fill the last group
base64_decode(t) ==
  LET u == B64Unpadded(t)
      vals == [i \in 1..Len(u) |-> B64Val(u[i])]
  IN IF \/ Len(t) % 4 # 0
        \/ \E i \in 1..Len(u) : vals[i] < 0
        \/ Len(u) % 4 = 1
     THEN [ok |-> FALSE, bytes |-> <<>>]
     ELSE [ok |-> TRUE, bytes |-> B64Bytes(vals)]

(***************************************************************************)
(* UTF-8 validation (std::str::from_utf8), used by Reader::read_string.    *)
(***************************************************************************)
IsCont(b) == b >= 128 /\ b <= 191

RECURSIVE Utf8Valid(_)
Utf8Valid(s) ==
  IF Len(s) = 0 THEN TRUE
  ELSE LET b == s[1] IN
    IF b < 128 THEN Utf8Valid(Slice(s, 1))
    ELSE IF b >= 194 /\ b <= 223 THEN
      /\ Len(s) >= 2 /\ IsCont(s[2])
      /\ Utf8Valid(Slice(s, 2))
    ELSE IF b >= 224 /\ b <= 239 THEN
      /\ Len(s) >= 3 /\ IsCont(s[2]) /\ IsCont(s[3])
      /\ (b = 224 => s[2] >= 160)
      /\ (b = 237 => s[2] <= 159)
      /\ Utf8Valid(Slice(s, 3))
    ELSE IF b >= 240 /\ b <= 244 THEN
      /\ Len(s) >= 4 /\ IsCont(s[2]) /\ IsCont(s[3]) /\ IsCont(s[4])
      /\ (b = 240 => s[2] >= 144)
      /\ (b = 244 => s[2] <= 143)
      /\ Utf8Valid(Slice(s, 4))
    ELSE FALSE

(***************************************************************************)
(* Wire Reader (mod reader): a cursor `off` into the byte buffer `buf`.    *)
(* Every read returns [ok, val, off, err]; a failed read leaves the        *)
(* cursor where it was.                                                    *)
(***************************************************************************)
\* the big-endian u32 in the first four bytes of s (s[1] < 128: TLC's integers
\* end at 2^31 - 1)
U32(s) == ((s[1] * 256 + s[2]) * 256 + s[3]) * 256 + s[4]

\* the u32 length prefix in s is larger than n (a buffer length, below 2^31)
U32Exceeds(s, n) == s[1] >= 128 \/ U32(s) > n

read_bytes(buf, off) ==
  LET rest == Slice(buf, off) IN
  IF Len(rest) < 4 THEN [ok |-> FALSE, val |-> <<>>, off |-> off, err |-> InvalidFormat]
  ELSE LET size == U32(rest) IN
    IF U32Exceeds(rest, Len(rest) - 4)
    THEN [ok |-> FALSE, val |-> <<>>, off |-> off, err |-> InvalidFormat]
    ELSE [ok |-> TRUE, val |-> SubSeq(rest, 5, 4 + size), off |-> off + 4 + size,
          err |-> NoError]

read_string(buf, off) ==
  LET r == read_bytes(buf, off) IN
  IF ~r.ok THEN r
  ELSE IF ~Utf8Valid(r.val)
  THEN [ok |-> FALSE, val |-> <<>>, off |-> r.off, err |-> Utf8]
  ELSE r

\* strips one leading 0x00 byte iff the byte after it has its high bit set
read_mpint(buf, off) ==
  LET r == read_bytes(buf, off) IN
  IF ~r.ok THEN r
  ELSE IF Len(r.val) >= 2 /\ r.val[1] = 0 /\ r.val[2] >= 128
  THEN [r EXCEPT !.val = Slice(r.val, 1)]
  ELSE r

(***************************************************************************)
(* Wire Writer (mod writer): an append-only buffer `w`; every write        *)
(* returns the extended buffer.                                            *)
(***************************************************************************)
\* the four big-endian bytes of a length (a u32; n is a sequence length of
\* the model, below 2^31, so the cast to u32 never truncates)
U32Bytes(n) ==
  <<n \div 16777216, (n \div 65536) % 256, (n \div 256) % 256, n % 256>>

write_bytes(w, b) == w \o U32Bytes(Len(b)) \o b

write_string(w, s) == write_bytes(w, s)

\* write_mpint that prepends the 0x00 byte to every non-empty integer
write_mpint_always_padded(w, b) ==
  IF Len(b) > 0 THEN write_bytes(w, <<0>> \o b)
  ELSE write_bytes(w, b)

\* prepends a 0x00 byte when the first byte has its high bit set
write_mpint(w, b) ==
  IF Len(b) > 0 /\ b[1] >= 128 THEN write_bytes(w, <<0>> \o b)
  ELSE write_bytes(w, b)

(***************************************************************************)
(* Curve (lib.rs:66-95).                                                   *)
(***************************************************************************)
Curves == {"Nistp256", "Nistp384", "Nistp521"}

\* Curve::get: [ok, curve, err]
Curve_get(name) ==
  IF name = NISTP_256 THEN [ok |-> TRUE, curve |-> "Nistp256", err |-> NoError]
  ELSE IF name = NISTP_384 THEN [ok |-> TRUE, curve |-> "Nistp384", err |-> NoError]
  ELSE IF name = NISTP_521 THEN [ok |-> TRUE, curve |-> "Nistp521", err |-> NoError]
  ELSE [ok |-> FALSE, curve |-> "None", err |-> UnsupportedCurve(name)]

curvetype(curve) ==
  CASE curve = "Nistp256" -> NISTP_256
    [] curve = "Nistp384" -> NISTP_384
    [] curve = "Nistp521" -> NISTP_521

(***************************************************************************)
(* Data and PublicKey (lib.rs:106-131).  An Option<String> is a record     *)
(* [some, val].                                                            *)
(***************************************************************************)
None == [some |-> FALSE, val |-> <<>>]
Some(v) == [some |-> TRUE, val |-> v]

Rsa(e, n) == [tag |-> "Rsa", exponent |-> e, modulus |-> n]
Dsa(p, q, g, y) == [tag |-> "Dsa", p |-> p, q |-> q, g |-> g, pub_key |-> y]
Ed25519(k) == [tag |-> "Ed25519", key |-> k]
Ecdsa(c, k) == [tag |-> "Ecdsa", curve |-> c, key |-> k]

PublicKey(d, c) == [data |-> d, comment |-> c]

\* the absence of a key (no value of type PublicKey exists)
NoKey == [data |-> [tag |-> "NoKey"], comment |-> None]

(***************************************************************************)
(* str::split_whitespace: the maximal runs of non-whitespace characters.   *)
(***************************************************************************)
IsWhitespace(ch) == ch \in {9, 10, 11, 12, 13, 32}

RECURSIVE split_whitespace(_)
split_whitespace(s) ==
  IF Len(s) = 0 THEN <<>>
  ELSE IF IsWhitespace(s[1]) THEN split_whitespace(Slice(s, 1))
  ELSE LET ends == {i \in 1..Len(s) : i = Len(s) \/ IsWhitespace(s[i + 1])}
           n == CHOOSE i \in ends : \A j \in ends : i <= j
       IN <<SubSeq(s, 1, n)>> \o split_whitespace(Slice(s, n))

(***************************************************************************)
(* PublicKey operations (lib.rs:139-389).                                  *)
(***************************************************************************)
keytype(k) ==
  CASE k.data.tag = "Rsa" -> SSH_RSA
    [] k.data.tag = "Dsa" -> SSH_DSA
    [] k.data.tag = "Ed25519" -> SSH_ED25519
    [] k.data.tag = "Ecdsa" ->
         CASE k.data.curve = "Nistp256" -> SSH_ECDSA_256
           [] k.data.curve = "Nistp384" -> SSH_ECDSA_384
           [] k.data.curve = "Nistp521" -> SSH_ECDSA_521

\* data that writes the RSA modulus before the exponent
data_modulus_first(k) ==
  LET w0 == write_string(<<>>, keytype(k)) IN
  CASE k.data.tag = "Rsa" ->
         write_mpint(write_mpint(w0, k.data.modulus), k.data.exponent)
    [] k.data.tag = "Dsa" ->
         write_mpint(write_mpint(write_mpint(write_mpint(w0,
           k.data.p), k.data.q), k.data.g), k.data.pub_key)
    [] k.data.tag = "Ed25519" -> write_bytes(w0, k.data.key)
    [] k.data.tag = "Ecdsa" ->
         write_bytes(write_string(w0, curvetype(k.data.curve)), k.data.key)

data(k) ==
  LET w0 == write_string(<<>>, keytype(k)) IN
  CASE k.data.tag = "Rsa" ->
         write_mpint(write_mpint(w0, k.data.exponent), k.data.modulus)
    [] k.data.tag = "Dsa" ->
         write_mpint(write_mpint(write_mpint(write_mpint(w0,
           k.data.p), k.data.q), k.data.g), k.data.pub_key)
    [] k.data.tag = "Ed25519" -> write_bytes(w0, k.data.key)
    [] k.data.tag = "Ecdsa" ->
         write_bytes(write_string(w0, curvetype(k.data.curve)), k.data.key)

from_rsa(e, n) == PublicKey(Rsa(e, n), None)

from_dsa(p, q, g, pkey) == PublicKey(Dsa(p, q, g, pkey), None)

to_key_file(k) ==
  keytype(k) \o <<32>> \o base64_encode(data(k)) \o <<32>>
    \o (IF k.comment.some THEN k.comment.val ELSE <<>>)

\* size that measures the RSA exponent and the DSA q
size_of_wrong_field(k) ==
  CASE k.data.tag = "Rsa" -> Len(k.data.exponent) * 8
    [] k.data.tag = "Dsa" -> Len(k.data.q) * 8
    [] k.data.tag = "Ed25519" -> 256
    [] k.data.tag = "Ecdsa" ->
         CASE k.data.curve = "Nistp256" -> 256
           [] k.data.curve = "Nistp384" -> 384
           [] k.data.curve = "Nistp521" -> 521

size(k) ==
  CASE k.data.tag = "Rsa" -> Len(k.data.modulus) * 8
    [] k.data.tag = "Dsa" -> Len(k.data.p) * 8
    [] k.data.tag = "Ed25519" -> 256
    [] k.data.tag = "Ecdsa" ->
         CASE k.data.curve = "Nistp256" -> 256
           [] k.data.curve = "Nistp384" -> 384
           [] k.data.curve = "Nistp521" -> 521

\* key.set_comment(comment): the key after the call (lib.rs:321-323)
set_comment(k, comment) == [k EXCEPT !.comment = Some(comment)]

(***************************************************************************)
(* PublicKey::fingerprint (lib.rs:357-372).  SHA-256 belongs to an         *)
(* external crate and is used as a 32-byte digest of the bytes it is       *)
(* given: Sha256 stands for it as a fixed function from bytes to 32 bytes  *)
(* that depends on every byte and on the length, not as SHA-256's values.  *)
(***************************************************************************)
DigestLen == 32

RECURSIVE Absorb(_, _, _)
Absorb(h, b, i) ==
  IF i > Len(b) THEN h
  ELSE Absorb((h * 31 + b[i] + 1) % 65521, b, i + 1)

Sha256(b) ==
  LET h == Absorb(Len(b) + 1, b, 1) IN
  [i \in 1..DigestLen |-> (((h % 256) + i) * ((h \div 256) + i) + i) % 256]

\* "SHA256:"
SHA256_PREFIX == <<83, 72, 65, 50, 53, 54, 58>>

\* fingerprint.find('='): the 0-based position of the first '=', Len(s)
\* when there is none
RECURSIVE FindPad(_, _)
FindPad(s, l) ==
  IF l >= Len(s) THEN Len(s)
  ELSE IF s[l + 1] = 61 THEN l ELSE FindPad(s, l + 1)

\* fingerprint that digests the printed line, comment included
fingerprint_of_key_file(k) ==
  LET hashed == Sha256(to_key_file(k))
      fp == base64_encode(hashed)
  IN SHA256_PREFIX \o SubSeq(fp, 1, FindPad(fp, 0))

fingerprint(k) ==
  LET hashed == Sha256(data(k))
      fp == base64_encode(hashed)
  IN SHA256_PREFIX \o SubSeq(fp, 1, FindPad(fp, 0))

(***************************************************************************)
(* PublicKey::parse (lib.rs:154-247).  The result is                       *)
(*   [ok, key, err, off, reads]                                            *)
(* where off is the reader's cursor when parse returns and reads the       *)
(* number of read_* calls that parse made after the embedded identifier.   *)
(***************************************************************************)
Fail(e, off, reads) ==
  [ok |-> FALSE, key |-> NoKey, err |-> e, off |-> off, reads |-> reads]

Ok(d, c, off, reads) ==
  [ok |-> TRUE, key |-> PublicKey(d, c), err |-> NoError, off |-> off, reads |-> reads]

\* the ssh-rsa arm with a modulus that defaults to empty when its read fails
parse_rsa_defaulting(buf, off, comment) ==
  LET e == read_mpint(buf, off) IN
  IF ~e.ok THEN Fail(e.err, e.off, 1) ELSE
  LET n == read_mpint(buf, e.off) IN
  Ok(Rsa(e.val, n.val), comment, n.off, 2)

\* the ssh-rsa arm (lib.rs:171-181)
parse_rsa(buf, off, comment) ==
  LET e == read_mpint(buf, off) IN
  IF ~e.ok THEN Fail(e.err, e.off, 1) ELSE
  LET n == read_mpint(buf, e.off) IN
  IF ~n.ok THEN Fail(n.err, n.off, 2) ELSE
  Ok(Rsa(e.val, n.val), comment, n.off, 2)

\* the ssh-dss arm that reads g before q
parse_dsa_g_before_q(buf, off, comment) ==
  LET p == read_mpint(buf, off) IN
  IF ~p.ok THEN Fail(p.err, p.off, 1) ELSE
  LET g == read_mpint(buf, p.off) IN
  IF ~g.ok THEN Fail(g.err, g.off, 2) ELSE
  LET q == read_mpint(buf, g.off) IN
  IF ~q.ok THEN Fail(q.err, q.off, 3) ELSE
  LET y == read_mpint(buf, q.off) IN
  IF ~y.ok THEN Fail(y.err, y.off, 4) ELSE
  Ok(Dsa(p.val, q.val, g.val, y.val), comment, y.off, 4)

\* the ssh-dss arm (lib.rs:182-202)
parse_dsa(buf, off, comment) ==
  LET p == read_mpint(buf, off) IN
  IF ~p.ok THEN Fail(p.err, p.off, 1) ELSE
  LET q == read_mpint(buf, p.off) IN
  IF ~q.ok THEN Fail(q.err, q.off, 2) ELSE
  LET g == read_mpint(buf, q.off) IN
  IF ~g.ok THEN Fail(g.err, g.off, 3) ELSE
  LET y == read_mpint(buf, g.off) IN
  IF ~y.ok THEN Fail(y.err, y.off, 4) ELSE
  Ok(Dsa(p.val, q.val, g.val, y.val), comment, y.off, 4)

\* the ssh-ed25519 arm (lib.rs:203-215)
parse_ed25519(buf, off, comment) ==
  LET k == read_bytes(buf, off) IN
  IF ~k.ok THEN Fail(k.err, k.off, 1) ELSE
  Ok(Ed25519(k.val), comment, k.off, 1)

\* the ecdsa-sha2-nistp* arm (lib.rs:216-239): the curve is resolved from
\* the name in the payload, after both reads
parse_ecdsa(buf, off, comment) ==
  LET c == read_string(buf, off) IN
  IF ~c.ok THEN Fail(c.err, c.off, 1) ELSE
  LET k == read_bytes(buf, c.off) IN
  IF ~k.ok THEN Fail(k.err, k.off, 2) ELSE
  LET curve == Curve_get(c.val) IN
  IF ~curve.ok THEN Fail(curve.err, k.off, 2) ELSE
  Ok(Ecdsa(curve.curve, k.val), comment, k.off, 2)

\* the match on the keytype with a default arm that reports InvalidFormat
parse_data_default_invalid(kt, buf, off, comment) ==
  IF kt = SSH_RSA THEN parse_rsa(buf, off, comment)
  ELSE IF kt = SSH_DSA THEN parse_dsa(buf, off, comment)
  ELSE IF kt = SSH_ED25519 THEN parse_ed25519(buf, off, comment)
  ELSE IF kt \in {SSH_ECDSA_256, SSH_ECDSA_384, SSH_ECDSA_521}
       THEN parse_ecdsa(buf, off, comment)
  ELSE Fail(InvalidFormat, off, 0)

\* the match on the keytype (lib.rs:170-241)
parse_data(kt, buf, off, comment) ==
  IF kt = SSH_RSA THEN parse_rsa(buf, off, comment)
  ELSE IF kt = SSH_DSA THEN parse_dsa(buf, off, comment)
  ELSE IF kt = SSH_ED25519 THEN parse_ed25519(buf, off, comment)
  ELSE IF kt \in {SSH_ECDSA_256, SSH_ECDSA_384, SSH_ECDSA_521}
       THEN parse_ecdsa(buf, off, comment)
  ELSE Fail(UnsupportedKeytype(kt), off, 0)

\* parse that compares the identifiers after the match on the keytype
parse_check_after_match(line) ==
  LET parts == split_whitespace(line) IN
  IF Len(parts) < 1 THEN Fail(InvalidFormat, 0, 0) ELSE
  IF Len(parts) < 2 THEN Fail(InvalidFormat, 0, 0) ELSE
  LET kt == parts[1]
      comment == IF Len(parts) < 3 \/ Len(parts[3]) = 0 THEN None ELSE Some(parts[3])
      dec == base64_decode(parts[2])
  IN
  IF ~dec.ok THEN Fail(InvalidFormat, 0, 0) ELSE
  LET buf == dec.bytes
      id == read_string(buf, 0)
  IN
  IF ~id.ok THEN Fail(id.err, id.off, 0) ELSE
  LET r == parse_data(kt, buf, id.off, comment) IN
  IF ~r.ok THEN r ELSE
  IF kt # id.val THEN Fail(InvalidFormat, r.off, r.reads) ELSE r

parse(line) ==
  LET parts == split_whitespace(line) IN
  IF Len(parts) < 1 THEN Fail(InvalidFormat, 0, 0) ELSE
  IF Len(parts) < 2 THEN Fail(InvalidFormat, 0, 0) ELSE
  LET kt == parts[1]
      comment == IF Len(parts) < 3 \/ Len(parts[3]) = 0 THEN None ELSE Some(parts[3])
      dec == base64_decode(parts[2])
  IN
  IF ~dec.ok THEN Fail(InvalidFormat, 0, 0) ELSE
  LET buf == dec.bytes
      id == read_string(buf, 0)
  IN
  IF ~id.ok THEN Fail(id.err, id.off, 0) ELSE
  IF kt # id.val THEN Fail(InvalidFormat, id.off, 0) ELSE
  parse_data(kt, buf, id.off, comment)

(***************************************************************************)
(* Inputs.  A key line is drawn by its parts, as the test vectors          *)
(* (lib.rs:395-399) are made: a leading token, a separator, the base64     *)
(* text of a payload and a tail (nothing, or whitespace and a comment).    *)
(* The payload is the length-prefixed embedded identifier and fields,      *)
(* with `cut` bytes removed from its end and `trail` appended.             *)
(***************************************************************************)
ByteVals == {0, 1, 128}

\* byte sequences of at most n bytes
BlobsUpTo(n) == UNION {[1..k -> ByteVals] : k \in 0..n}

Blobs == BlobsUpTo(MaxLen)

TinyBlobs == {<<>>, <<1>>}

TailBlobs == {<<>>, <<1>>, <<128>>}

\* "ssh-xyz", an identifier that is not supported
SSH_XYZ == <<115, 115, 104, 45, 120, 121, 122>>

\* "nistp999", a curve name that is not supported
NISTP_999 == <<110, 105, 115, 116, 112, 57, 57, 57>>

\* a byte string that is not UTF-8
NotUtf8 == <<110, 128>>

KnownTokens ==
  {SSH_RSA, SSH_DSA, SSH_ED25519, SSH_ECDSA_256, SSH_ECDSA_384, SSH_ECDSA_521}

EcdsaTokens == {SSH_ECDSA_256, SSH_ECDSA_384, SSH_ECDSA_521}

Tokens == KnownTokens \cup {SSH_XYZ}

CurveNames == {NISTP_256, NISTP_384, NISTP_521, NISTP_999, NotUtf8}

\* " ", and a tab followed by a space
Seps == {<<32>>, <<9, 32>>}

\* nothing; " "; " c"; "  c"; " a b"
Tails == {<<>>, <<32>>, <<32, 99>>, <<32, 32, 99>>, <<32, 97, 32, 98>>}

\* the raw wire fields that follow the identifier: the leading integers
\* (or the blob) drawn from B, the later integers from T
FieldsFor(token, B, T) ==
  IF token = SSH_RSA THEN {<<e, n>> : e \in B, n \in B}
  ELSE IF token = SSH_DSA THEN
    {<<p, q, g, y>> : p \in B, q \in T, g \in T, y \in T}
  ELSE IF token = SSH_ED25519 THEN {<<k>> : k \in B}
  ELSE IF token \in EcdsaTokens THEN {<<c, k>> : c \in CurveNames, k \in B}
  ELSE {<<>>, <<<<1>>>>}

RECURSIVE Frames(_)
Frames(fields) ==
  IF Len(fields) = 0 THEN <<>>
  ELSE write_bytes(<<>>, fields[1]) \o Frames(Slice(fields, 1))

FullPayload(id, fields) == write_bytes(<<>>, id) \o Frames(fields)

Payload(i) ==
  LET full == FullPayload(i.id, i.fields) IN
  SubSeq(full, 1, Len(full) - i.cut) \o i.trail

LineOf(i) == i.token \o i.sep \o base64_encode(Payload(i)) \o i.tail

LineInput(token, id, fields, cut, trail, sep, tail) ==
  [kind |-> "line", token |-> token, id |-> id, fields |-> fields, cut |-> cut,
   trail |-> trail, sep |-> sep, tail |-> tail]

\* complete payloads over every field value, in the line shape of the tests
FieldInputs ==
  UNION {{LineInput(t, t, f, 0, <<>>, <<32>>, <<32, 99>>) :
            f \in FieldsFor(t, Blobs, TailBlobs)} : t \in KnownTokens}

\* complete payloads under every separator and tail
TextInputs ==
  UNION {{LineInput(t, t, f, 0, <<>>, s, tl) :
            f \in FieldsFor(t, TinyBlobs, {<<1>>}), s \in Seps, tl \in Tails} :
         t \in KnownTokens}

\* payloads cut short at every position
CutInputs ==
  UNION {UNION {{LineInput(t, t, f, c, <<>>, <<32>>, <<32, 99>>) :
                   c \in 1..Len(FullPayload(t, f))} :
                f \in FieldsFor(t, TinyBlobs, {<<1>>})} : t \in Tokens}

\* payloads followed by further bytes
TrailInputs ==
  UNION {{LineInput(t, t, f, 0, tr, <<32>>, <<32, 99>>) :
            f \in FieldsFor(t, TinyBlobs, {<<1>>}), tr \in {<<0>>, <<0, 0, 0, 0>>}} :
         t \in Tokens}

\* every embedded identifier under every leading token, complete or one
\* byte short
IdInputs ==
  UNION {{LineInput(t, id, f, c, <<>>, <<32>>, <<32, 99>>) :
            id \in Tokens \cup {<<>>, NotUtf8},
            f \in FieldsFor(t, {<<1>>}, {<<1>>}), c \in {0, 1}} :
         t \in Tokens}

\* lines that are not of that shape, each a leading token and the rest:
\* ""; "   "; "ssh-rsa"; "ssh-rsa !!!!"; "ssh-rsa AAA"; "ssh-rsa A=AA c";
\* "ssh-xyz"; "ssh-xyz !!!!"
RawInputs ==
  {[kind |-> "text", token |-> r[1], rest |-> r[2]] :
     r \in {<<<<>>, <<>>>>, <<<<>>, <<32, 32, 32>>>>, <<SSH_RSA, <<>>>>,
            <<SSH_RSA, <<32, 33, 33, 33, 33>>>>, <<SSH_RSA, <<32, 65, 65, 65>>>>,
            <<SSH_RSA, <<32, 65, 61, 65, 65, 32, 99>>>>, <<SSH_XYZ, <<>>>>,
            <<SSH_XYZ, <<32, 33, 33, 33, 33>>>>}}

\* the arguments of from_rsa and of from_dsa, and of a lone write_mpint
RsaInputs == {[kind |-> "rsa", e |-> e, n |-> n] : e \in Blobs, n \in Blobs}

DsaInputs ==
  {[kind |-> "dsa", p |-> p, q |-> q, g |-> g, y |-> y] :
     p \in Blobs, q \in TailBlobs, g \in TailBlobs, y \in TailBlobs}

MpintInputs == {[kind |-> "mpint", b |-> b] : b \in BlobsUpTo(MaxLen + 1)}

\* the arguments of set_comment: "", "t", "a b"
Comments == {<<>>, <<116>>, <<97, 32, 98>>}

Inputs ==
  FieldInputs \cup TextInputs \cup CutInputs \cup TrailInputs \cup IdInputs
    \cup RawInputs \cup RsaInputs \cup DsaInputs \cup MpintInputs

(***************************************************************************)
(* State: one use of the library on one input.                             *)
(***************************************************************************)
VARIABLES
  inp,    \* the input of this run
  pc,     \* the caller's position
  line,   \* the text last given to parse
  res,    \* the result of the last parse
  key,    \* the caller's PublicKey (NoKey while it has none)
  out,    \* the text last returned by to_key_file
  wbuf,   \* a Writer's buffer
  rd,     \* the result of the read from a Reader over wbuf
  calls   \* the set_comment calls so far: how many, and the comment
          \* given to the last

vars == <<inp, pc, line, res, key, out, wbuf, rd, calls>>

\* what the caller keeps of a parse result next to the key
Outcome(r) == [ok |-> r.ok, err |-> r.err, off |-> r.off, reads |-> r.reads]

NoRes == Outcome(Fail(NoError, 0, 0))

NoRead == [ok |-> FALSE, val |-> <<>>, off |-> 0, err |-> NoError]

NoCalls == [n |-> 0, comment |-> <<>>]

Init ==
  /\ inp \in Inputs
  /\ pc = "init"
  /\ line = IF inp.kind = "line" THEN LineOf(inp)
            ELSE IF inp.kind = "text" THEN inp.token \o inp.rest ELSE <<>>
  /\ res = NoRes
  /\ key = NoKey
  /\ out = <<>>
  /\ wbuf = <<>>
  /\ rd = NoRead
  /\ calls = NoCalls

\* PublicKey::parse(line)
Parse ==
  /\ pc = "init"
  /\ inp.kind \in {"line", "text"}
  /\ res' = Outcome(parse(line))
  /\ key' = parse(line).key
  /\ pc' = "parsed"
  /\ UNCHANGED <<inp, line, out, wbuf, rd, calls>>

\* PublicKey::from_rsa(e, n)
FromRsa ==
  /\ pc = "init"
  /\ inp.kind = "rsa"
  /\ key' = from_rsa(inp.e, inp.n)
  /\ pc' = "built"
  /\ UNCHANGED <<inp, line, res, out, wbuf, rd, calls>>

\* PublicKey::from_dsa(p, q, g, y)
FromDsa ==
  /\ pc = "init"
  /\ inp.kind = "dsa"
  /\ key' = from_dsa(inp.p, inp.q, inp.g, inp.y)
  /\ pc' = "built"
  /\ UNCHANGED <<inp, line, res, out, wbuf, rd, calls>>

\* key.to_key_file()
ToKeyFile ==
  /\ pc \in {"parsed", "built", "commented"}
  /\ key # NoKey
  /\ out' = to_key_file(key)
  /\ pc' = IF pc = "commented" THEN "comment_printed" ELSE "printed"
  /\ UNCHANGED <<inp, line, res, key, wbuf, rd, calls>>

\* PublicKey::parse(out), out being what to_key_file returned
ParseOutput ==
  /\ pc = "printed"
  /\ line' = out
  /\ res' = Outcome(parse(out))
  /\ key' = parse(out).key
  /\ pc' = "reparsed"
  /\ UNCHANGED <<inp, out, wbuf, rd, calls>>

\* key.set_comment(c), on a key that parse or a constructor returned or
\* that earlier calls have commented
SetComment ==
  /\ pc \in {"parsed", "built", "commented"}
  /\ key # NoKey
  /\ calls.n < MaxCalls
  /\ \E c \in Comments :
       /\ key' = set_comment(key, c)
       /\ calls' = [n |-> calls.n + 1, comment |-> c]
  /\ pc' = "commented"
  /\ UNCHANGED <<inp, line, res, out, wbuf, rd>>

\* Writer::new().write_mpint(b)
WriteMpint ==
  /\ pc = "init"
  /\ inp.kind = "mpint"
  /\ wbuf' = write_mpint(<<>>, inp.b)
  /\ pc' = "written"
  /\ UNCHANGED <<inp, line, res, key, out, rd, calls>>

\* Reader::new(wbuf).read_mpint()
ReadMpint ==
  /\ pc = "written"
  /\ rd' = read_mpint(wbuf, 0)
  /\ pc' = "read"
  /\ UNCHANGED <<inp, line, res, key, out, wbuf, calls>>

Next ==
  \/ Parse
  \/ FromRsa
  \/ FromDsa
  \/ ToKeyFile
  \/ ParseOutput
  \/ SetComment
  \/ WriteMpint
  \/ ReadMpint

Spec == Init /\ [][Next]_vars

(***************************************************************************)
(* Properties.                                                             *)
(***************************************************************************)
\* parse has returned a key for the line drawn as inp
ParsedLine == pc \in {"parsed", "printed"} /\ inp.kind = "line" /\ res.ok

\* a line in the format of to_key_file: one space after the token and one
\* after the payload, a one-word comment (the shape of the test vectors)
OutputShaped(i) == i.kind = "line" /\ i.sep = <<32>> /\ i.tail = <<32, 99>>

\* the integer fields of the payload drawn as i
IntegerFields(i) ==
  IF i.token \in {SSH_RSA, SSH_DSA} THEN {i.fields[k] : k \in 1..Len(i.fields)}
  ELSE {}

\* a payload in wire format: the identifier of the token, then exactly the
\* complete fields, nothing after them, and no integer field whose first
\* byte has its high bit set
WellFormedPayload(i) ==
  /\ i.kind = "line" /\ i.id = i.token
  /\ i.cut = 0 /\ i.trail = <<>>
  /\ \A f \in IntegerFields(i) : Len(f) = 0 \/ f[1] < 128

\* C1: text round trip, on the key lines in the format of to_key_file
\* whose payload is in wire format.  For every such line L that parse
\* accepts, parse(L).to_key_file() equals L character for character.
C1_TextRoundTrip ==
  (pc = "printed" /\ ParsedLine /\ OutputShaped(inp) /\ WellFormedPayload(inp)) =>
    out = line

\* C2: algorithm-id consistency.  For every line on which parse succeeds,
\* keytype() of the key equals the line's leading token, and the
\* identifier that data() embeds equals the one embedded in the payload.
C2_KeytypeIsToken ==
  ParsedLine =>
    /\ keytype(key) = inp.token
    /\ read_string(data(key), 0).val = inp.id

\* the curve that an ecdsa-sha2-nistp* identifier implies
ImpliedCurveName(token) ==
  CASE token = SSH_ECDSA_256 -> NISTP_256
    [] token = SSH_ECDSA_384 -> NISTP_384
    [] token = SSH_ECDSA_521 -> NISTP_521

\* parse of the line drawn as inp reads a curve name and a point: an ECDSA
\* token, the same embedded identifier, a complete payload and a curve
\* name that is text
ReadsCurve(i) ==
  /\ i.kind = "line" /\ i.token \in EcdsaTokens /\ i.id = i.token
  /\ i.cut = 0 /\ Utf8Valid(i.fields[1])

\* C3: in parse of an ecdsa-sha2-nistp* line, a curve name read from the
\* payload that is unknown, or known but not the curve of the identifier,
\* makes parse fail with UnsupportedCurve: no key is returned.
C3_CurveMismatchRejected ==
  (pc = "parsed" /\ ReadsCurve(inp)
     /\ inp.fields[1] # ImpliedCurveName(inp.token)) =>
    /\ ~res.ok /\ key = NoKey
    /\ res.err.kind = "UnsupportedCurve"

\* the line drawn as inp has a leading token that is none of the five
UnknownToken(i) ==
  i.kind \in {"line", "text"} /\ Len(i.token) > 0 /\ i.token \notin KnownTokens

\* the payload of the line drawn as inp begins with a complete
\* length-prefixed field
FirstFieldComplete(i) == i.kind = "line" /\ i.cut <= Len(Frames(i.fields))

\* C4 as stated: parse of a line whose leading token is none of the five
\* identifiers fails with UnsupportedKeytype carrying the token, whatever
\* the payload field contains.
C4_UnknownTokenAnyPayload ==
  (pc = "parsed" /\ UnknownToken(inp)) =>
    /\ ~res.ok
    /\ res.err = UnsupportedKeytype(inp.token)

\* C4 amended: parse of a line whose leading token is none of the five
\* identifiers returns no key; the error is UnsupportedKeytype carrying
\* the token exactly when the payload is base64 of bytes whose first
\* length-prefixed string equals the token.
C4_UnknownToken ==
  (pc = "parsed" /\ UnknownToken(inp)) =>
    /\ ~res.ok /\ key = NoKey
    /\ (res.err = UnsupportedKeytype(inp.token)
          <=> (FirstFieldComplete(inp) /\ inp.id = inp.token))

\* an unknown token, embedded in a payload that goes on after it, was
\* refused as an unsupported keytype
C4_Witness ==
  /\ pc = "parsed" /\ UnknownToken(inp) /\ inp.kind = "line"
  /\ Len(inp.fields) > 0 /\ inp.cut = 0
  /\ res.err = UnsupportedKeytype(inp.token)

\* the first length-prefixed field of the payload is complete and differs
\* from the leading token
FirstStringDiffers(i) == FirstFieldComplete(i) /\ i.id # i.token

\* parse failed with InvalidFormat right after the embedded identifier
RejectedAtIdentifier(i) ==
  /\ ~res.ok /\ key = NoKey
  /\ res.err = InvalidFormat
  /\ res.reads = 0
  /\ res.off = 4 + Len(i.id)

\* C5 as stated: parse of a line whose payload's first length-prefixed
\* string differs from the leading token fails with InvalidFormat, and no
\* variant-specific field is read before that failure.
C5_IdMismatchAnyBytes ==
  (pc = "parsed" /\ FirstStringDiffers(inp)) => RejectedAtIdentifier(inp)

\* C5 amended: parse of a line whose payload's first length-prefixed
\* string is valid UTF-8 and differs from the leading token fails with
\* InvalidFormat, and no variant-specific field is read before that
\* failure (a first string that is not UTF-8 fails with the Utf8 error).
C5_IdMismatch ==
  /\ (pc = "parsed" /\ FirstStringDiffers(inp) /\ Utf8Valid(inp.id)) =>
       RejectedAtIdentifier(inp)
  /\ (pc = "parsed" /\ FirstStringDiffers(inp) /\ ~Utf8Valid(inp.id)) =>
       (~res.ok /\ key = NoKey /\ res.err = Utf8 /\ res.reads = 0)

\* an ssh-rsa line whose complete payload is that of an ssh-dss key was
\* refused
C5_Witness ==
  /\ pc = "parsed" /\ FirstStringDiffers(inp)
  /\ inp.token = SSH_RSA /\ inp.id = SSH_DSA /\ inp.cut = 0
  /\ RejectedAtIdentifier(inp)

\* the payload of the line drawn as inp is cut short inside the embedded
\* identifier or inside a field that the algorithm of the token requires
Truncated(i) ==
  /\ i.kind = "line" /\ i.cut >= 1
  /\ (i.token \in KnownTokens \/ ~FirstFieldComplete(i))

\* parse of the line drawn as inp reads, before it reaches the cut, a text
\* field that is not UTF-8: the embedded identifier, or the curve name
InvalidTextBeforeCut(i) ==
  \/ FirstFieldComplete(i) /\ ~Utf8Valid(i.id)
  \/ /\ i.token \in EcdsaTokens /\ i.id = i.token
     /\ i.cut <= 4 + Len(i.fields[2])
     /\ ~Utf8Valid(i.fields[1])

\* C6 as stated: parse of a line whose decoded payload is truncated at any
\* of the fields the algorithm requires fails with InvalidFormat and
\* returns no PublicKey.
C6_TruncatedInvalidFormat ==
  (pc = "parsed" /\ Truncated(inp)) =>
    (~res.ok /\ key = NoKey /\ res.err = InvalidFormat)

\* C6 amended: parse of a line whose decoded payload is truncated at any
\* of the fields the algorithm requires fails and returns no PublicKey;
\* the error is InvalidFormat, unless parse reads before the truncation a
\* text field (embedded identifier or curve name) that is not UTF-8, and
\* then it is the Utf8 error.
C6_Truncated ==
  (pc = "parsed" /\ Truncated(inp)) =>
    /\ ~res.ok /\ key = NoKey
    /\ res.err = IF InvalidTextBeforeCut(inp) THEN Utf8 ELSE InvalidFormat

\* an ssh-dss line cut inside its last integer was refused
C6_Witness ==
  /\ pc = "parsed" /\ Truncated(inp)
  /\ inp.token = SSH_DSA /\ inp.id = SSH_DSA /\ inp.cut = 1
  /\ ~res.ok /\ key = NoKey /\ res.err = InvalidFormat /\ res.reads = 4

\* read_mpint returned b and consumed all that write_mpint(b) wrote
MpintReturned(b) == rd.ok /\ rd.val = b /\ rd.off = Len(wbuf)

\* C7 as stated: for all byte sequences b, read_mpint applied to the bytes
\* of write_mpint(b) returns exactly b and consumes exactly those bytes.
C7_MpintRoundTripAll ==
  pc = "read" => MpintReturned(inp.b)

\* b begins with a 0x00 byte followed by a byte with its high bit set
PaddedForm(b) == Len(b) >= 2 /\ b[1] = 0 /\ b[2] >= 128

\* C7 amended: for all byte sequences b that do not begin with a 0x00 byte
\* followed by a byte with its high bit set (the empty sequence and those
\* whose leading byte has its high bit set included), read_mpint applied
\* to the bytes of write_mpint(b) returns exactly b and consumes exactly
\* those bytes; for the others it returns b without its leading 0x00.
C7_MpintRoundTrip ==
  /\ (pc = "read" /\ ~PaddedForm(inp.b)) => MpintReturned(inp.b)
  /\ (pc = "read" /\ PaddedForm(inp.b)) =>
       (rd.ok /\ rd.val = Slice(inp.b, 1) /\ rd.off = Len(wbuf))

\* a sequence whose leading byte has its high bit set came back
C7_Witness ==
  /\ pc = "read" /\ Len(inp.b) >= 2 /\ inp.b[1] >= 128
  /\ Len(wbuf) = 4 + Len(inp.b) + 1
  /\ MpintReturned(inp.b)

\* C8: binary re-encode fidelity, on the payloads in wire format.  For
\* every such payload that parse accepts, data() of the resulting key
\* equals that payload byte for byte.
C8_DataIsPayload ==
  (ParsedLine /\ WellFormedPayload(inp)) => data(key) = Payload(inp)

\* the key that from_rsa or from_dsa made of the input
Built(i) ==
  IF i.kind = "rsa" THEN from_rsa(i.e, i.n) ELSE from_dsa(i.p, i.q, i.g, i.y)

\* parse(x.to_key_file()) has returned for a key x built from components
Rebuilt == pc = "reparsed" /\ inp.kind \in {"rsa", "dsa"}

\* the components given to from_rsa or from_dsa
Components(i) ==
  IF i.kind = "rsa" THEN {i.e, i.n} ELSE {i.p, i.q, i.g, i.y}

\* C9 as stated: for every key x built by from_rsa or from_dsa from
\* arbitrary byte vectors, parse(x.to_key_file()) succeeds and yields a
\* key of the same variant with the same fields in the same order.
C9_RebuildAnyBytes ==
  Rebuilt => (res.ok /\ key.data = Built(inp).data)

\* C9 amended: for every key x built by from_rsa or from_dsa from byte
\* vectors none of which begins with a 0x00 byte followed by a byte with
\* its high bit set, parse(x.to_key_file()) succeeds and yields a key of
\* the same variant with the same fields in the same order; from any byte
\* vectors it succeeds and yields a key of the same variant.
C9_Rebuild ==
  /\ (Rebuilt /\ \A b \in Components(inp) : ~PaddedForm(b)) =>
       (res.ok /\ key.data = Built(inp).data)
  /\ Rebuilt => (res.ok /\ key.data.tag = Built(inp).data.tag)

\* a DSA key of four different components, the first with its high bit
\* set, came back from its own line
C9_Witness ==
  /\ Rebuilt /\ inp.kind = "dsa"
  /\ Len(inp.p) >= 2 /\ inp.p[1] >= 128
  /\ inp.q = <<>> /\ inp.g = <<1>> /\ inp.y = <<128>>
  /\ res.ok /\ key.data = Dsa(inp.p, inp.q, inp.g, inp.y)

\* the bytes that read_mpint returns for the wire field f
Magnitude(f) == read_mpint(write_bytes(<<>>, f), 0).val

\* the bit length of the curve of a name
BitsOfCurveName(name) ==
  CASE name = NISTP_256 -> 256
    [] name = NISTP_384 -> 384
    [] name = NISTP_521 -> 521

\* C10: size() is 8 times the byte length of the stored modulus (RSA) or
\* of the stored p (DSA), 256 for Ed25519 and 256/384/521 for ECDSA by the
\* key's curve whatever the point's length; for a parsed key the stored
\* integer is the one read_mpint returned.
C10_Size ==
  /\ (ParsedLine /\ inp.token = SSH_RSA) =>
       size(key) = 8 * Len(Magnitude(inp.fields[2]))
  /\ (ParsedLine /\ inp.token = SSH_DSA) =>
       size(key) = 8 * Len(Magnitude(inp.fields[1]))
  /\ (ParsedLine /\ inp.token = SSH_ED25519) => size(key) = 256
  /\ (ParsedLine /\ inp.token \in EcdsaTokens) =>
       size(key) = BitsOfCurveName(inp.fields[1])
  /\ (pc = "built" /\ inp.kind = "rsa") => size(key) = 8 * Len(inp.n)
  /\ (pc = "built" /\ inp.kind = "dsa") => size(key) = 8 * Len(inp.p)

\* a parsed RSA key whose modulus field came with a leading zero byte (the
\* exponent field as long as the modulus field): the zero is not counted
C10_Witness ==
  /\ ParsedLine /\ inp.token = SSH_RSA
  /\ PaddedForm(inp.fields[2]) /\ Len(inp.fields[1]) = Len(inp.fields[2])
  /\ size(key) = 8 * (Len(inp.fields[2]) - 1)

\* a key that parse returned for the line drawn as inp has been given a
\* comment by set_comment and printed by to_key_file
CommentedLine == pc = "comment_printed" /\ inp.kind = "line" /\ res.ok

\* a line in the format of to_key_file with a one-word comment, or the same
\* without the comment and the space before it
CommentOptional(i) ==
  i.kind = "line" /\ i.sep = <<32>> /\ i.tail \in {<<>>, <<32, 99>>}

\* the line l drawn as i with c as its trailing field: l, a space and c
\* when l has no comment, else l with its one-character comment replaced
WithComment(l, i, c) ==
  IF i.tail = <<>> THEN l \o <<32>> \o c
  ELSE SubSeq(l, 1, Len(l) - 1) \o c

\* C11: comment mutation, on the key lines in the format of to_key_file
\* (with or without a comment) whose payload is in wire format.  For every
\* such line L that parse accepts and every comment c, set_comment(c)
\* followed by to_key_file() yields L with c as its trailing field; on a
\* line without a comment that is L, one space and c.
C11_CommentReplaced ==
  (CommentedLine /\ CommentOptional(inp) /\ WellFormedPayload(inp)) =>
    out = WithComment(line, inp, calls.comment)

\* the key as parse or the constructor returned it for the input of this
\* run, before any call of set_comment
Constructed ==
  IF inp.kind \in {"rsa", "dsa"} THEN Built(inp) ELSE parse(line).key

\* set_comment has been called on the caller's key, once or more
Commented == pc \in {"commented", "comment_printed"}

\* C12: frame of set_comment.  After any sequence of set_comment calls on
\* a key, keytype(), data(), size() and fingerprint() return what they
\* returned before the calls: the key material is the same and the comment
\* is the one of the last call, so keys of equal data and different
\* comments have equal fingerprints.
C12_SetCommentFrame ==
  Commented =>
    /\ keytype(key) = keytype(Constructed)
    /\ data(key) = data(Constructed)
    /\ size(key) = size(Constructed)
    /\ fingerprint(key) = fingerprint(Constructed)
    /\ key.data = Constructed.data
    /\ key.comment = Some(calls.comment)

\* a key parsed from a line with a comment has been given a comment twice,
\* the last of them not the one of the line, and has the fingerprint it had
\* when parsed
C12_Witness ==
  /\ Commented /\ inp.kind = "line" /\ inp.token = SSH_RSA
  /\ Constructed.comment = Some(<<99>>)
  /\ calls.n = 2
  /\ key.comment = Some(<<97, 32, 98>>)
  /\ fingerprint(key) = fingerprint(Constructed)
  /\ Len(fingerprint(key)) = Len(SHA256_PREFIX) + 43

====
